---- MODULE Spec2Model ----
(***************************************************************************)
(* Configuration loader (trading_engineconfig.py) and structured log       *)
(* formatter (trading_enginelogger.py) of the trading engine.              *)
(*                                                                         *)
(* Conventions.                                                            *)
(*   - Optional[T] is a sequence: <<>> is None, <<x>> is the value x.      *)
(*   - Python floats are scaled integers: money in whole units, fractions  *)
(*     in thousandths (0.1 is 100, 0.001 is 1).                            *)
(*   - A string whose characters matter (the private key, the formatter's  *)
(*     output) is a sequence of one-character strings.                     *)
(*   - Mutable dicts live in heap, addressed by name, so that two          *)
(*     references to one dict are one heap cell.                           *)
(***************************************************************************)
EXTENDS Integers, Sequences, FiniteSets, TLC

VARIABLES
    env,              \* os.environ: variable name -> Optional string
    capital_default,  \* the default of TradingConfig.initial_capital
    fs,               \* the base directory: entry name -> "absent" | "dir" | "file"
    pc,               \* "idle" | "returned" | "raised": how the last Config() ended
    cfg,              \* Optional Config object built by the last Config()
    heap,             \* address -> dict (the __dict__ of the dataclass instances, view dicts)
    view,             \* Optional mapping last returned by to_dict(): key -> address
    out,              \* what the last Config() printed, then the exception it raised
    err,              \* the exception the last Config() raised, or NoErr
    fs_before,        \* fs when the last Config() started
    cfg_returned,     \* the field values of the configuration when Config() returned
    last,             \* the last operation: "init" | "load" | "to_dict" | "modify"
    nLoads,           \* Config() calls so far
    nMods,            \* caller modifications of the current view so far
    now,              \* the wall clock read by datetime.utcnow()
    record,           \* Optional LogRecord last passed to StructuredFormatter.format
    formatted         \* Optional string last returned by StructuredFormatter.format

vars == <<env, capital_default, fs, pc, cfg, heap, view, out, err, fs_before,
          cfg_returned, last, nLoads, nMods, now, record, formatted>>

cfgVars == <<env, capital_default, fs, pc, cfg, heap, view, out, err, fs_before,
             cfg_returned, last, nLoads, nMods>>

fmtVars == <<now, record, formatted>>

(***************************************************************************)
(* Bounds                                                                  *)
(***************************************************************************)
MaxLoads == 2
MaxMods == 1

(***************************************************************************)
(* The environment                                                         *)
(***************************************************************************)
None == <<>>
Some(x) == <<x>>

\* "-----BEGIN\nKEY" as it stands in the environment: K, backslash, n, K
EscapedKey == <<"K", "\\", "n", "K">>

\* The values each variable takes: unset, set to the empty string, or set.
\* LOG_LEVEL, which nothing but log_level reads, is left unset.
Envs ==
    [FIREBASE_PROJECT_ID     : {None, Some("proj")},
     FIREBASE_PRIVATE_KEY_ID : {Some(""), Some("kid")},
     FIREBASE_PRIVATE_KEY    : {None, Some(EscapedKey)},
     FIREBASE_CLIENT_EMAIL   : {None, Some("svc@proj")},
     EXCHANGE_API_KEY        : {None, Some("AK")},
     EXCHANGE_API_SECRET     : {Some(""), Some("AS")},
     LOG_LEVEL               : {None}]

\* os.getenv(name, default)
getenv(e, name, default) == IF e[name] = None THEN default ELSE e[name][1]

\* str.replace('\\n', '\n') on a character sequence: every backslash-n pair
\* becomes one newline character, scanning left to right.
RECURSIVE replace_escaped_newlines(_)
replace_escaped_newlines(s) ==
    IF s = <<>> THEN <<>>
    ELSE IF Len(s) >= 2 /\ s[1] = "\\" /\ s[2] = "n"
         THEN <<"\n">> \o replace_escaped_newlines(SubSeq(s, 3, Len(s)))
         ELSE <<s[1]>> \o replace_escaped_newlines(Tail(s))

(***************************************************************************)
(* Exceptions                                                              *)
(***************************************************************************)
NoErr == [type |-> "None", arg |-> ""]
FirebaseRequired == [type |-> "ValueError", arg |-> "Firebase configuration is required"]
CapitalNotPositive == [type |-> "ValueError", arg |-> "Initial capital must be positive"]
FileExistsError(d) == [type |-> "FileExistsError", arg |-> d]
\* An Exception raised inside the body of from_env's try (MemoryError while
\* str.replace builds the new key).
EnvFault == [type |-> "MemoryError", arg |-> ""]

PrintedFirebaseFailure == "Failed to load Firebase config"
PrintedWarning == "WARNING: Exchange API credentials not set - using paper trading mode"
Raised(e) == "raise " \o e.type \o ": " \o e.arg

(***************************************************************************)
(* The dataclasses                                                         *)
(***************************************************************************)
DefaultCapital == 10000

\* The values of the TradingConfig.initial_capital default: the one in the
\* source, and the non-positive ones _validate guards against.
CapitalValues == {DefaultCapital, 0, -5}

\* from_env without its failure boundary: the exception leaves from_env.
FirebaseConfig_from_env_propagating(e, fault) ==
    IF fault
    THEN [value |-> None, printed |-> <<>>, exc |-> EnvFault]
    ELSE [value |-> Some([project_id     |-> getenv(e, "FIREBASE_PROJECT_ID", ""),
                          private_key_id |-> getenv(e, "FIREBASE_PRIVATE_KEY_ID", ""),
                          private_key    |-> replace_escaped_newlines(
                                                 getenv(e, "FIREBASE_PRIVATE_KEY", <<>>)),
                          client_email   |-> getenv(e, "FIREBASE_CLIENT_EMAIL", ""),
                          token_uri      |-> "https://oauth2.googleapis.com/token"]),
          printed |-> <<>>,
          exc |-> NoErr]

\* FirebaseConfig.from_env: [value: Optional FirebaseConfig, printed, exc].
\* fault: an Exception is raised inside the try body.
FirebaseConfig_from_env(e, fault) ==
    IF fault
    THEN [value |-> None, printed |-> <<PrintedFirebaseFailure>>, exc |-> NoErr]
    ELSE [value |-> Some([project_id     |-> getenv(e, "FIREBASE_PROJECT_ID", ""),
                          private_key_id |-> getenv(e, "FIREBASE_PRIVATE_KEY_ID", ""),
                          private_key    |-> replace_escaped_newlines(
                                                 getenv(e, "FIREBASE_PRIVATE_KEY", <<>>)),
                          client_email   |-> getenv(e, "FIREBASE_CLIENT_EMAIL", ""),
                          token_uri      |-> "https://oauth2.googleapis.com/token"]),
          printed |-> <<>>,
          exc |-> NoErr]

ExchangeConfig_from_env(e) ==
    [name       |-> "binance",
     api_key    |-> getenv(e, "EXCHANGE_API_KEY", ""),
     api_secret |-> getenv(e, "EXCHANGE_API_SECRET", ""),
     testnet    |-> TRUE,
     rate_limit |-> 10]

\* The __dict__ of a new TradingConfig()
TradingConfig(initial_capital) ==
    [initial_capital          |-> initial_capital,
     max_position_size        |-> 100,
     max_daily_loss           |-> 20,
     min_confidence_threshold |-> 650,
     max_open_positions       |-> 5,
     slippage_tolerance       |-> 1]

HypothesisConfig ==
    [lookback_periods         |-> <<60, 240, 1440>>,
     min_test_period          |-> 100,
     max_hypotheses_per_cycle |-> 50,
     hypothesis_timeout       |-> 300,
     backtest_warmup          |-> 1000]

ModelConfig ==
    [feature_window         |-> 50,
     target_horizon         |-> 5,
     train_test_split       |-> 800,
     min_training_samples   |-> 1000,
     model_retrain_interval |-> 100]

(***************************************************************************)
(* The filesystem                                                          *)
(***************************************************************************)
Dirs == <<"data", "models", "logs">>
DirNames == {Dirs[i] : i \in 1..Len(Dirs)}
EntryKinds == {"absent", "dir", "file"}

\* Path.mkdir() without exist_ok: an existing directory raises too.
mkdir_no_exist_ok(f, d) ==
    CASE f[d] = "absent" -> [fs |-> [f EXCEPT ![d] = "dir"], exc |-> NoErr]
      [] f[d] = "dir"    -> [fs |-> f, exc |-> FileExistsError(d)]
      [] f[d] = "file"   -> [fs |-> f, exc |-> FileExistsError(d)]

\* Path.mkdir(exist_ok=True): [fs, exc]
mkdir(f, d) ==
    CASE f[d] = "absent" -> [fs |-> [f EXCEPT ![d] = "dir"], exc |-> NoErr]
      [] f[d] = "dir"    -> [fs |-> f, exc |-> NoErr]
      [] f[d] = "file"   -> [fs |-> f, exc |-> FileExistsError(d)]

\* Config._create_directories: data, models, logs in this order, stopping at
\* the first exception.
RECURSIVE mkdir_all(_, _)
mkdir_all(f, ds) ==
    IF ds = <<>> THEN [fs |-> f, exc |-> NoErr]
    ELSE LET r == mkdir(f, Head(ds))
         IN IF r.exc # NoErr THEN r ELSE mkdir_all(r.fs, Tail(ds))

Config_create_directories(f) == mkdir_all(f, Dirs)

(***************************************************************************)
(* Config                                                                  *)
(***************************************************************************)
\* Addresses of the dicts a Config owns, and of the dict to_dict() builds.
TradingAddr == "cfg.trading.__dict__"
HypothesisAddr == "cfg.hypothesis.__dict__"
ModelAddr == "cfg.model.__dict__"
ViewExchangeAddr == "view.exchange"

\* bool(obj) of an Optional dataclass instance: None is false, an instance of a
\* dataclass (no __bool__, no __len__) is true whatever its fields hold.
truthy(opt) == opt # None

\* _validate with the capital check first.
Config_validate_capital_first(c, h) ==
    IF h[c.trading].initial_capital <= 0
    THEN [printed |-> <<>>, exc |-> CapitalNotPositive]
    ELSE IF ~truthy(c.firebase)
    THEN [printed |-> <<>>, exc |-> FirebaseRequired]
    ELSE [printed |-> IF c.exchange.api_key = "" \/ c.exchange.api_secret = ""
                      THEN <<PrintedWarning>> ELSE <<>>,
          exc |-> NoErr]

\* _validate with the capital check written < 0.
Config_validate_negative_only(c, h) ==
    IF ~truthy(c.firebase)
    THEN [printed |-> <<>>, exc |-> FirebaseRequired]
    ELSE LET warned == IF c.exchange.api_key = "" \/ c.exchange.api_secret = ""
                       THEN <<PrintedWarning>> ELSE <<>>
         IN IF h[c.trading].initial_capital < 0
            THEN [printed |-> warned, exc |-> CapitalNotPositive]
            ELSE [printed |-> warned, exc |-> NoErr]

\* _validate warning only when the key and the secret are both blank.
Config_validate_warn_both_blank(c, h) ==
    IF ~truthy(c.firebase)
    THEN [printed |-> <<>>, exc |-> FirebaseRequired]
    ELSE LET warned == IF c.exchange.api_key = "" /\ c.exchange.api_secret = ""
                       THEN <<PrintedWarning>> ELSE <<>>
         IN IF h[c.trading].initial_capital <= 0
            THEN [printed |-> warned, exc |-> CapitalNotPositive]
            ELSE [printed |-> warned, exc |-> NoErr]

\* Config._validate: [printed, exc]
Config_validate(c, h) ==
    IF ~truthy(c.firebase)
    THEN [printed |-> <<>>, exc |-> FirebaseRequired]
    ELSE LET warned == IF c.exchange.api_key = "" \/ c.exchange.api_secret = ""
                       THEN <<PrintedWarning>> ELSE <<>>
         IN IF h[c.trading].initial_capital <= 0
            THEN [printed |-> warned, exc |-> CapitalNotPositive]
            ELSE [printed |-> warned, exc |-> NoErr]

\* __init__ with _create_directories called before _validate.
Config_init_directories_first(e, fault, cap, f) ==
    LET fb == FirebaseConfig_from_env(e, fault)
        c  == [firebase   |-> fb.value,
               exchange   |-> ExchangeConfig_from_env(e),
               trading    |-> TradingAddr,
               hypothesis |-> HypothesisAddr,
               model      |-> ModelAddr,
               log_level  |-> getenv(e, "LOG_LEVEL", "INFO"),
               data_cache_ttl        |-> 300,
               hypothesis_cache_size |-> 1000,
               max_retries           |-> 3,
               retry_delay           |-> 1]
        h  == (TradingAddr :> TradingConfig(cap)) @@ (HypothesisAddr :> HypothesisConfig)
                 @@ (ModelAddr :> ModelConfig)
        m  == Config_create_directories(f)
        v  == Config_validate(c, h)
    IN  IF fb.exc # NoErr
        THEN [cfg |-> c, heap |-> h, fs |-> f, out |-> <<Raised(fb.exc)>>, exc |-> fb.exc]
        ELSE IF m.exc # NoErr
        THEN [cfg |-> c, heap |-> h, fs |-> m.fs,
              out |-> fb.printed \o <<Raised(m.exc)>>, exc |-> m.exc]
        ELSE IF v.exc # NoErr
        THEN [cfg |-> c, heap |-> h, fs |-> m.fs,
              out |-> fb.printed \o v.printed \o <<Raised(v.exc)>>, exc |-> v.exc]
        ELSE [cfg |-> c, heap |-> h, fs |-> m.fs,
              out |-> fb.printed \o v.printed, exc |-> NoErr]

\* Config.__init__: [cfg, heap, fs, out, exc]
Config_init(e, fault, cap, f) ==
    LET fb == FirebaseConfig_from_env(e, fault)
        c  == [firebase   |-> fb.value,
               exchange   |-> ExchangeConfig_from_env(e),
               trading    |-> TradingAddr,
               hypothesis |-> HypothesisAddr,
               model      |-> ModelAddr,
               log_level  |-> getenv(e, "LOG_LEVEL", "INFO"),
               data_cache_ttl        |-> 300,
               hypothesis_cache_size |-> 1000,
               max_retries           |-> 3,
               retry_delay           |-> 1]
        h  == (TradingAddr :> TradingConfig(cap)) @@ (HypothesisAddr :> HypothesisConfig)
                 @@ (ModelAddr :> ModelConfig)
        v  == Config_validate(c, h)
        m  == Config_create_directories(f)
    IN  IF fb.exc # NoErr
        THEN [cfg |-> c, heap |-> h, fs |-> f, out |-> <<Raised(fb.exc)>>, exc |-> fb.exc]
        ELSE IF v.exc # NoErr
        THEN [cfg |-> c, heap |-> h, fs |-> f,
              out |-> fb.printed \o v.printed \o <<Raised(v.exc)>>, exc |-> v.exc]
        ELSE IF m.exc # NoErr
        THEN [cfg |-> c, heap |-> h, fs |-> m.fs,
              out |-> fb.printed \o v.printed \o <<Raised(m.exc)>>, exc |-> m.exc]
        ELSE [cfg |-> c, heap |-> h, fs |-> m.fs,
              out |-> fb.printed \o v.printed, exc |-> NoErr]

\* to_dict with the whole exchange settings as the exchange entry.
Config_to_dict_whole_exchange(c, h) ==
    [view |-> [exchange   |-> ViewExchangeAddr,
               trading    |-> c.trading,
               hypothesis |-> c.hypothesis,
               model      |-> c.model],
     heap |-> [a \in DOMAIN h \cup {ViewExchangeAddr} |->
                  IF a = ViewExchangeAddr THEN c.exchange ELSE h[a]]]

\* Config.to_dict: [view, heap]. The exchange entry is a new dict; the other
\* three entries are the __dict__ objects of the dataclass instances.
Config_to_dict(c, h) ==
    [view |-> [exchange   |-> ViewExchangeAddr,
               trading    |-> c.trading,
               hypothesis |-> c.hypothesis,
               model      |-> c.model],
     heap |-> [a \in DOMAIN h \cup {ViewExchangeAddr} |->
                  IF a = ViewExchangeAddr
                  THEN [name |-> c.exchange.name, testnet |-> c.exchange.testnet]
                  ELSE h[a]]]

\* The field values a configuration holds, dataclass instances dereferenced.
ConfigValue(c, h) ==
    [firebase   |-> c.firebase,
     exchange   |-> c.exchange,
     trading    |-> h[c.trading],
     hypothesis |-> h[c.hypothesis],
     model      |-> h[c.model],
     log_level  |-> c.log_level,
     data_cache_ttl        |-> c.data_cache_ttl,
     hypothesis_cache_size |-> c.hypothesis_cache_size,
     max_retries           |-> c.max_retries,
     retry_delay           |-> c.retry_delay]

\* The mapping a view denotes, addresses dereferenced.
ViewValue(v, h) == [k \in DOMAIN v |-> h[v[k]]]

\* What a caller stores into entry k, field f of the mapping to_dict() returned:
\* a value of the field's type other than the one the loader put there.
StoredValue(k, f) ==
    CASE k = "exchange" /\ f = "name"                -> "other"
      [] k = "exchange" /\ f = "testnet"             -> FALSE
      [] k = "hypothesis" /\ f = "lookback_periods"  -> <<>>
      [] OTHER                                       -> -5

(***************************************************************************)
(* StructuredFormatter                                                     *)
(***************************************************************************)
DigitChars == <<"0", "1", "2", "3", "4", "5", "6", "7", "8", "9">>
IsDigit(c) == \E i \in 1..Len(DigitChars) : DigitChars[i] = c
DigitValue(c) == (CHOOSE i \in 1..Len(DigitChars) : DigitChars[i] = c) - 1

\* n in decimal, zero-padded to w characters
RECURSIVE zero_padded(_, _)
zero_padded(n, w) ==
    IF w = 0 THEN <<>> ELSE zero_padded(n \div 10, w - 1) \o <<DigitChars[(n % 10) + 1]>>

\* The instants the wall clock shows.
Instants ==
    [year : {2026}, month : {1, 12}, day : {3}, hour : {0, 23}, minute : {7},
     second : {0, 59}, microsecond : {0, 1, 999999}]

\* datetime.now(timezone.utc): the clock's instant as an aware datetime
now_utc_aware(clock) ==
    [year |-> clock.year, month |-> clock.month, day |-> clock.day, hour |-> clock.hour,
     minute |-> clock.minute, second |-> clock.second,
     microsecond |-> clock.microsecond, tzinfo |-> Some(0)]

\* datetime.utcnow(): the clock's instant as a naive datetime (tzinfo None)
utcnow(clock) ==
    [year |-> clock.year, month |-> clock.month, day |-> clock.day, hour |-> clock.hour,
     minute |-> clock.minute, second |-> clock.second,
     microsecond |-> clock.microsecond, tzinfo |-> None]

\* datetime.isoformat(): YYYY-MM-DDTHH:MM:SS, then .ffffff when the microsecond
\* is not 0, then the UTC offset when the datetime is aware.
isoformat(dt) ==
    zero_padded(dt.year, 4) \o <<"-">> \o zero_padded(dt.month, 2) \o <<"-">>
        \o zero_padded(dt.day, 2) \o <<"T">> \o zero_padded(dt.hour, 2) \o <<":">>
        \o zero_padded(dt.minute, 2) \o <<":">> \o zero_padded(dt.second, 2)
        \o (IF dt.microsecond # 0 THEN <<".">> \o zero_padded(dt.microsecond, 6) ELSE <<>>)
        \o (IF dt.tzinfo # None THEN <<"+", "0", "0", ":", "0", "0">> ELSE <<>>)

\* The level names of the logging module and the modules that log.
LevelNames == {<<"D", "E", "B", "U", "G">>, <<"I", "N", "F", "O">>,
               <<"W", "A", "R", "N", "I", "N", "G">>, <<"E", "R", "R", "O", "R">>,
               <<"C", "R", "I", "T", "I", "C", "A", "L">>}
ModuleNames == {<<"c", "o", "n", "f", "i", "g">>, <<"l", "o", "g", "g", "e", "r">>,
                <<"a", "\"", "b", "\\", "c">>}

KeyTimestamp == <<"t", "i", "m", "e", "s", "t", "a", "m", "p">>
KeyLevel == <<"l", "e", "v", "e", "l">>
KeyModule == <<"m", "o", "d", "u", "l", "e">>

\* The entries of log_entry the source shows, in order: <<key, value>> pairs.
log_entry(rec, clock) ==
    << <<KeyTimestamp, isoformat(utcnow(clock)) \o <<"Z">> >>,
       <<KeyLevel, rec.levelname>> >>

\* The 'module' entry, whose value the source breaks off before.
module_entry(rec) == <<KeyModule, rec.module>>

\* json.dumps of a string: quoted, with the quote, the backslash and the
\* newline escaped.
RECURSIVE json_escape(_)
json_escape(s) ==
    IF s = <<>> THEN <<>>
    ELSE (CASE s[1] = "\"" -> <<"\\", "\"">>
            [] s[1] = "\\" -> <<"\\", "\\">>
            [] s[1] = "\n" -> <<"\\", "n">>
            [] OTHER       -> <<s[1]>>) \o json_escape(Tail(s))

json_string(s) == <<"\"">> \o json_escape(s) \o <<"\"">>

\* json.dumps of a dict of strings, given as its <<key, value>> pairs in order
RECURSIVE json_members(_)
json_members(entries) ==
    IF entries = <<>> THEN <<>>
    ELSE json_string(entries[1][1]) \o <<":", " ">> \o json_string(entries[1][2])
            \o (IF Len(entries) > 1 THEN <<",", " ">> ELSE <<>>)
            \o json_members(Tail(entries))

json_dumps(entries) == <<"{">> \o json_members(entries) \o <<"}">>

\* StructuredFormatter.format
StructuredFormatter_format(rec, clock) ==
    json_dumps(log_entry(rec, clock) \o <<module_entry(rec)>>)

(***************************************************************************)
(* Operations                                                              *)
(***************************************************************************)
InitCfg ==
    /\ env \in Envs
    /\ capital_default \in CapitalValues
    /\ fs \in [DirNames -> EntryKinds]
    /\ pc = "idle"
    /\ cfg = None
    /\ heap = <<>>
    /\ view = None
    /\ out = <<>>
    /\ err = NoErr
    /\ fs_before = fs
    /\ cfg_returned = None
    /\ last = "init"
    /\ nLoads = 0
    /\ nMods = 0

\* Before the logger is in use.
InitFmt ==
    /\ now = CHOOSE t \in Instants : TRUE
    /\ record = None
    /\ formatted = None

Init == InitCfg /\ InitFmt

\* The environment of a deployment with every variable set.
FullEnv ==
    [FIREBASE_PROJECT_ID     |-> Some("proj"),
     FIREBASE_PRIVATE_KEY_ID |-> Some("kid"),
     FIREBASE_PRIVATE_KEY    |-> Some(EscapedKey),
     FIREBASE_CLIENT_EMAIL   |-> Some("svc@proj"),
     EXCHANGE_API_KEY        |-> Some("AK"),
     EXCHANGE_API_SECRET     |-> Some("AS"),
     LOG_LEVEL               |-> Some("DEBUG")]

\* The logger module imports config, so the formatter exists only after
\* config = Config() has returned.
InitLogger ==
    /\ env = FullEnv
    /\ capital_default = DefaultCapital
    /\ fs_before = [d \in DirNames |-> "absent"]
    /\ LET r == Config_init(env, FALSE, capital_default, fs_before)
       IN  /\ cfg = Some(r.cfg)
           /\ heap = r.heap
           /\ fs = r.fs
           /\ out = r.out
           /\ err = r.exc
           /\ pc = "returned"
           /\ cfg_returned = Some(ConfigValue(r.cfg, r.heap))
    /\ view = None
    /\ last = "load"
    /\ nLoads = 1
    /\ nMods = 0
    /\ now \in Instants
    /\ record = None
    /\ formatted = None

\* config = Config()
Load ==
    /\ nLoads < MaxLoads
    /\ \E fault \in BOOLEAN :
          LET r == Config_init(env, fault, capital_default, fs)
          IN  /\ cfg' = Some(r.cfg)
              /\ heap' = r.heap
              /\ fs' = r.fs
              /\ out' = r.out
              /\ err' = r.exc
              /\ pc' = IF r.exc = NoErr THEN "returned" ELSE "raised"
              /\ cfg_returned' = IF r.exc = NoErr THEN Some(ConfigValue(r.cfg, r.heap))
                                 ELSE None
    /\ fs_before' = fs
    /\ view' = None
    /\ last' = "load"
    /\ nLoads' = nLoads + 1
    /\ nMods' = 0
    /\ UNCHANGED <<env, capital_default, now, record, formatted>>

\* d = config.to_dict()
ToDict ==
    /\ pc = "returned"
    /\ LET r == Config_to_dict(cfg[1], heap)
       IN  /\ view' = Some(r.view)
           /\ heap' = r.heap
    /\ last' = "to_dict"
    /\ UNCHANGED <<env, capital_default, fs, pc, cfg, out, err, fs_before, cfg_returned,
                   nLoads, nMods, now, record, formatted>>

\* d[k][f] = value, by a caller holding the mapping to_dict() returned
CallerModifiesView ==
    /\ view # None
    /\ nMods < MaxMods
    /\ \E k \in DOMAIN view[1] :
          \E f \in DOMAIN heap[view[1][k]] :
              heap' = [heap EXCEPT ![view[1][k]][f] = StoredValue(k, f)]
    /\ last' = "modify"
    /\ nMods' = nMods + 1
    /\ UNCHANGED <<env, capital_default, fs, pc, cfg, view, out, err, fs_before,
                   cfg_returned, nLoads, now, record, formatted>>

\* The wall clock moves.
Tick ==
    /\ now' \in Instants \ {now}
    /\ UNCHANGED <<cfgVars, record, formatted>>

\* handler.format(record), by the logging module
Format ==
    /\ \E lv \in LevelNames, md \in ModuleNames :
          LET rec == [levelname |-> lv, module |-> md]
          IN  /\ record' = Some(rec)
              /\ formatted' = Some(StructuredFormatter_format(rec, now))
    /\ UNCHANGED <<cfgVars, now>>

Next == Load \/ ToDict \/ CallerModifiesView

Spec == Init /\ [][Next]_vars

NextFmt == Tick \/ Format

SpecFmt == InitLogger /\ [][NextFmt]_vars

(***************************************************************************)
(* Properties of Config                                                    *)
(***************************************************************************)
Elements(s) == {s[i] : i \in 1..Len(s)}
Loaded == nLoads > 0
TheConfig == cfg[1]
CredentialBlockPresent == TheConfig.firebase # None
ExchangeCredentialsBlank ==
    TheConfig.exchange.api_key = "" \/ TheConfig.exchange.api_secret = ""
AllDirs(f) == \A d \in DirNames : f[d] = "dir"
NoFileInTheWay(f) == \A d \in DirNames : f[d] # "file"

\* Every credential variable is unset or empty.
AllCredentialsMissing(e) ==
    /\ getenv(e, "FIREBASE_PROJECT_ID", "") = ""
    /\ getenv(e, "FIREBASE_PRIVATE_KEY_ID", "") = ""
    /\ getenv(e, "FIREBASE_PRIVATE_KEY", <<>>) = <<>>
    /\ getenv(e, "FIREBASE_CLIENT_EMAIL", "") = ""

\* C1: when every credential environment variable is missing or empty,
\* Config() raises the credential error and returns no configuration.
\* (The statement of the claim; the code returns a configuration.)
C1_MissingCredentialsRaise ==
    (Loaded /\ AllCredentialsMissing(env)) => pc = "raised"

\* C2: whenever the initial capital is 0 or negative, Config() raises a
\* ValueError whatever the credentials and exchange keys are, and a
\* configuration that Config() returns has a strictly positive initial capital.
C2_NonPositiveCapitalRaises ==
    /\ (Loaded /\ capital_default <= 0) => (pc = "raised" /\ err.type = "ValueError")
    /\ cfg_returned # None => cfg_returned[1].trading.initial_capital > 0

C2_Witness ==
    /\ Loaded /\ capital_default = 0 /\ CredentialBlockPresent
    /\ ~ExchangeCredentialsBlank
    /\ pc = "raised" /\ err = CapitalNotPositive

\* The names of the fields that hold secrets.
SecretFieldNames == {"api_key", "api_secret", "private_key", "private_key_id",
                     "client_email", "project_id"}

\* Every assignment of the secret fields of a configuration.
SecretAssignments ==
    [api_key : {"", "AK'"}, api_secret : {"", "AS'"}, project_id : {"", "proj'"},
     private_key_id : {"", "kid'"}, private_key : {<<>>, <<"K", "\n", "Q">>},
     client_email : {"", "svc'"}]

WithSecrets(c, s) ==
    [c EXCEPT !.exchange.api_key = s.api_key,
              !.exchange.api_secret = s.api_secret,
              !.firebase = IF @ = None THEN None
                           ELSE Some([@[1] EXCEPT !.project_id = s.project_id,
                                                  !.private_key_id = s.private_key_id,
                                                  !.private_key = s.private_key,
                                                  !.client_email = s.client_email])]

RedactedView(c, h) == LET r == Config_to_dict(c, h) IN ViewValue(r.view, r.heap)

\* C3: the mapping to_dict() returns for a loaded configuration has exactly the
\* keys exchange, trading, hypothesis and model; its exchange entry holds only
\* the venue name and the testnet flag; the other entries hold the fields of
\* the trading, hypothesis and model settings; no key at either level is the
\* name of a secret field; and the mapping is the same whatever the secret
\* fields of the configuration hold.
C3_RedactedViewHidesSecrets ==
    last = "to_dict" =>
        LET v == ViewValue(view[1], heap)
        IN  /\ DOMAIN v = {"exchange", "trading", "hypothesis", "model"}
            /\ v.exchange = [name |-> TheConfig.exchange.name,
                             testnet |-> TheConfig.exchange.testnet]
            /\ v.trading = heap[TheConfig.trading]
            /\ v.hypothesis = heap[TheConfig.hypothesis]
            /\ v.model = heap[TheConfig.model]
            /\ DOMAIN v \cap SecretFieldNames = {}
            /\ \A k \in DOMAIN v : DOMAIN v[k] \cap SecretFieldNames = {}
            /\ \A s \in SecretAssignments : RedactedView(WithSecrets(TheConfig, s), heap) = v

C3_Witness ==
    /\ last = "to_dict" /\ pc = "returned"
    /\ TheConfig.exchange.api_key = "AK" /\ TheConfig.exchange.api_secret = "AS"
    /\ TheConfig.firebase[1].private_key = <<"K", "\n", "K">>
    /\ TheConfig.firebase[1].project_id = "proj"

\* C4: with the credential block present and a positive initial capital, blank
\* exchange credentials (key, secret or both) make Config() print the warning
\* and never raise a validation error: it returns the configuration whenever
\* no non-directory entry stands where a directory is to be created. The
\* warning is printed only when the key or the secret is blank.
C4_BlankExchangeCredentialsWarnOnly ==
    Loaded =>
        /\ (CredentialBlockPresent /\ capital_default > 0 /\ ExchangeCredentialsBlank) =>
              /\ PrintedWarning \in Elements(out)
              /\ err.type # "ValueError"
              /\ NoFileInTheWay(fs_before) => (pc = "returned" /\ err = NoErr)
        /\ PrintedWarning \in Elements(out) => ExchangeCredentialsBlank

C4_Witness ==
    /\ Loaded /\ pc = "returned" /\ CredentialBlockPresent
    /\ TheConfig.exchange.api_key = "" /\ TheConfig.exchange.api_secret = "AS"
    /\ out = <<PrintedWarning>>

\* C5: Config() never raises because one of data, models, logs is already a
\* directory. A Config() that returns leaves the three directories in place,
\* they stay in place over every later Config(), and a later Config() with
\* valid inputs that finds them in place returns and leaves them as they were.
C5_DirectoryCreationIdempotent ==
    /\ pc = "returned" => AllDirs(fs)
    /\ Loaded =>
          /\ err.type = "FileExistsError" => fs_before[err.arg] = "file"
          /\ AllDirs(fs_before) => fs = fs_before
          /\ (AllDirs(fs_before) /\ CredentialBlockPresent /\ capital_default > 0) =>
                (pc = "returned" /\ err = NoErr)

C5_Witness ==
    /\ nLoads >= 2 /\ pc = "returned" /\ AllDirs(fs_before) /\ fs = fs_before

\* C6: once Config() has returned, no operation changes a field value of the
\* configuration: not to_dict(), and not a caller storing into the mapping
\* that to_dict() returned.
\* (The statement of the claim; the code shares the settings' dicts with the view.)
C6_ConfigNeverMutated ==
    pc = "returned" => cfg_returned = Some(ConfigValue(TheConfig, heap))

\* C8: validation checks the credential block, then warns about blank exchange
\* credentials, then checks the capital. With the credential block absent the
\* credential error is all it does: no warning, no capital error. With the
\* block present, blank exchange credentials and a non-positive capital, the
\* warning is printed before the capital error is raised.
C8_ValidationOrder ==
    Loaded =>
        /\ ~CredentialBlockPresent =>
              /\ err = FirebaseRequired
              /\ PrintedWarning \notin Elements(out)
              /\ Raised(CapitalNotPositive) \notin Elements(out)
              /\ out[Len(out)] = Raised(FirebaseRequired)
        /\ (CredentialBlockPresent /\ ExchangeCredentialsBlank /\ capital_default <= 0) =>
              /\ err = CapitalNotPositive
              /\ \E i, j \in 1..Len(out) :
                    i < j /\ out[i] = PrintedWarning /\ out[j] = Raised(CapitalNotPositive)

C8_Witness ==
    /\ Loaded /\ CredentialBlockPresent /\ ExchangeCredentialsBlank /\ capital_default = -5
    /\ out = <<PrintedWarning, Raised(CapitalNotPositive)>>

\* C9: an exception raised while from_env reads or transforms the credential
\* variables never leaves Config(): it is reported in a printed line and the
\* credential block is None, and a None credential block makes Config() raise
\* 'Firebase configuration is required' instead of returning.
C9_CredentialFailureBecomesAbsence ==
    Loaded =>
        /\ err.type \in {"None", "ValueError", "FileExistsError"}
        /\ PrintedFirebaseFailure \in Elements(out) <=> ~CredentialBlockPresent
        /\ ~CredentialBlockPresent => (pc = "raised" /\ err = FirebaseRequired)

C9_Witness ==
    /\ Loaded /\ ~CredentialBlockPresent /\ pc = "raised"
    /\ out = <<PrintedFirebaseFailure, Raised(FirebaseRequired)>>

\* C10: a Config() that raises from validation (credential block absent, or
\* capital not positive) has created no directory: data, models and logs are
\* as they were when it started.
C10_ValidationBeforeDirectories ==
    (Loaded /\ err.type = "ValueError") => fs = fs_before

C10_Witness ==
    /\ Loaded /\ err = CapitalNotPositive /\ fs = fs_before
    /\ \A d \in DirNames : fs[d] = "absent"


(***************************************************************************)
(* Properties of StructuredFormatter                                       *)
(***************************************************************************)
ParseFailure == [ok |-> FALSE, val |-> <<>>, next |-> 0]

\* The characters of a JSON string from position i (after its opening quote)
\* to its closing quote, unescaped: [ok, val, next], next past the quote.
RECURSIVE json_read_chars(_, _, _)
json_read_chars(s, i, acc) ==
    IF i > Len(s) THEN ParseFailure
    ELSE IF s[i] = "\"" THEN [ok |-> TRUE, val |-> acc, next |-> i + 1]
    ELSE IF s[i] = "\n" THEN ParseFailure
    ELSE IF s[i] = "\\"
         THEN IF i + 1 > Len(s) THEN ParseFailure
              ELSE IF s[i + 1] \in {"\"", "\\"}
                   THEN json_read_chars(s, i + 2, Append(acc, s[i + 1]))
              ELSE IF s[i + 1] = "n" THEN json_read_chars(s, i + 2, Append(acc, "\n"))
              ELSE ParseFailure
    ELSE json_read_chars(s, i + 1, Append(acc, s[i]))

json_read_string(s, i) ==
    IF i <= Len(s) /\ s[i] = "\"" THEN json_read_chars(s, i + 1, <<>>) ELSE ParseFailure

\* Zero or more spaces from position i: the position after them.
RECURSIVE json_skip_spaces(_, _)
json_skip_spaces(s, i) ==
    IF i <= Len(s) /\ s[i] = " " THEN json_skip_spaces(s, i + 1) ELSE i

\* The members of a JSON object of strings from position i, up to the closing
\* brace that ends the text: [ok, val], val the <<key, value>> pairs in order.
RECURSIVE json_read_members(_, _, _)
json_read_members(s, i, acc) ==
    LET k  == json_read_string(s, json_skip_spaces(s, i))
        c  == json_skip_spaces(s, k.next)
        v  == json_read_string(s, json_skip_spaces(s, c + 1))
        e  == json_skip_spaces(s, v.next)
    IN  IF ~k.ok \/ c > Len(s) \/ s[c] # ":" THEN ParseFailure
        ELSE IF ~v.ok \/ e > Len(s) THEN ParseFailure
        ELSE IF s[e] = "," THEN json_read_members(s, e + 1, Append(acc, <<k.val, v.val>>))
        ELSE IF s[e] = "}" /\ e = Len(s)
             THEN [ok |-> TRUE, val |-> Append(acc, <<k.val, v.val>>), next |-> e + 1]
        ELSE ParseFailure

\* json.loads of an object of strings: [ok, val], val the mapping key -> value
\* (the last value of a repeated key).
json_loads(s) ==
    IF Len(s) < 2 \/ s[1] # "{" THEN [ok |-> FALSE, val |-> <<>>]
    ELSE IF s = <<"{", "}">> THEN [ok |-> TRUE, val |-> <<>>]
    ELSE LET r == json_read_members(s, 2, <<>>)
         IN  IF ~r.ok THEN [ok |-> FALSE, val |-> <<>>]
             ELSE [ok |-> TRUE,
                   val |-> [k \in {r.val[i][1] : i \in 1..Len(r.val)} |->
                              LET n == CHOOSE i \in 1..Len(r.val) :
                                          /\ r.val[i][1] = k
                                          /\ \A j \in 1..Len(r.val) : r.val[j][1] = k => j <= i
                              IN r.val[n][2]]]

\* The number the digits t[a..b] denote, or -1 when one of them is no digit.
RECURSIVE digits_value(_, _, _)
digits_value(t, a, b) ==
    IF a > b THEN 0
    ELSE IF ~IsDigit(t[b]) THEN -1
    ELSE LET hi == digits_value(t, a, b - 1)
         IN  IF hi < 0 THEN -1 ELSE hi * 10 + DigitValue(t[b])

InRange(n, lo, hi) == lo <= n /\ n <= hi

\* t is an ISO-8601 UTC instant YYYY-MM-DDTHH:MM:SS[.ffffff]Z
IsIso8601UtcInstant(t) ==
    /\ Len(t) \in {20, 27}
    /\ t[5] = "-" /\ t[8] = "-" /\ t[11] = "T" /\ t[14] = ":" /\ t[17] = ":"
    /\ digits_value(t, 1, 4) >= 0
    /\ InRange(digits_value(t, 6, 7), 1, 12)
    /\ InRange(digits_value(t, 9, 10), 1, 31)
    /\ InRange(digits_value(t, 12, 13), 0, 23)
    /\ InRange(digits_value(t, 15, 16), 0, 59)
    /\ InRange(digits_value(t, 18, 19), 0, 59)
    /\ Len(t) = 27 => (t[20] = "." /\ digits_value(t, 21, 26) >= 0)
    /\ t[Len(t)] = "Z"

\* The instant an ISO-8601 UTC instant denotes, as the clock shows it.
InstantOf(t) ==
    [year |-> digits_value(t, 1, 4), month |-> digits_value(t, 6, 7),
     day |-> digits_value(t, 9, 10), hour |-> digits_value(t, 12, 13),
     minute |-> digits_value(t, 15, 16), second |-> digits_value(t, 18, 19),
     microsecond |-> IF Len(t) = 27 THEN digits_value(t, 21, 26) ELSE 0]

====
